---- MODULE Spec2Model ----
(***************************************************************************)
(* Model of DCS_reset_mouse.py: a joystick button release recentres the    *)
(* mouse cursor.  The program is one sequential process; `pc` is its       *)
(* position.  Text of config.ini values is a sequence of one-character     *)
(* strings, so that split(';')[0].strip() and int()/float() are computed.  *)
(* A float is a record [num, den] (num/den, den a power of ten); the       *)
(* decimal texts offered are dyadic (0.5, 0.75, 1.5, ...) and the screen   *)
(* sizes small, so the IEEE product width*frac is exact and equals the     *)
(* rational product.                                                       *)
(***************************************************************************)
EXTENDS Integers, Sequences, FiniteSets, TLC

\* ------------------------------------------------------------- bounds
MaxDevices == 2      \* joysticks attached, at most
MaxButtons == 3      \* buttons on one joystick, at most
MaxScreen  == 3      \* screen width / height in pixels, at most
MaxEvents  == 2      \* input events delivered during one run, at most

\* ------------------------------------------------------------- text
Digits == {"0", "1", "2", "3", "4", "5", "6", "7", "8", "9"}

DigitVal(c) ==
    CASE c = "0" -> 0 [] c = "1" -> 1 [] c = "2" -> 2 [] c = "3" -> 3
      [] c = "4" -> 4 [] c = "5" -> 5 [] c = "6" -> 6 [] c = "7" -> 7
      [] c = "8" -> 8 [] c = "9" -> 9

\* str.split(';')[0]: the text before the first ';'
SplitFirst(s) ==
    LET at == {i \in 1..Len(s) : s[i] = ";"}
    IN  IF at = {} THEN s
        ELSE SubSeq(s, 1, (CHOOSE i \in at : \A j \in at : i <= j) - 1)

\* str.strip(): leading and trailing blanks removed
RECURSIVE Strip(_)
Strip(s) ==
    IF s = <<>> THEN s
    ELSE IF Head(s) = " " THEN Strip(Tail(s))
    ELSE IF s[Len(s)] = " " THEN Strip(SubSeq(s, 1, Len(s) - 1))
    ELSE s

\* value.split(';')[0].strip()
StripComment(s) == Strip(SplitFirst(s))

RECURSIVE ParseNat(_)
ParseNat(s) ==
    IF s = <<>> THEN 0
    ELSE 10 * ParseNat(SubSeq(s, 1, Len(s) - 1)) + DigitVal(s[Len(s)])

RECURSIVE Pow10(_)
Pow10(n) == IF n = 0 THEN 1 ELSE 10 * Pow10(n - 1)

AllDigits(s) == \A i \in 1..Len(s) : s[i] \in Digits

Unsigned(s) == IF s # <<>> /\ Head(s) \in {"-", "+"} THEN Tail(s) ELSE s

Sign(s) == IF s # <<>> /\ Head(s) = "-" THEN -1 ELSE 1

\* int(text) succeeds: an optional sign and at least one digit
IntOk(s) == Unsigned(s) # <<>> /\ AllDigits(Unsigned(s))

IntVal(s) == Sign(s) * ParseNat(Unsigned(s))

\* the position of the decimal point of an unsigned decimal text, 0 if none
PointAt(u) ==
    LET at == {i \in 1..Len(u) : u[i] = "."}
    IN  IF at = {} THEN 0 ELSE CHOOSE i \in at : \A j \in at : i <= j

IntPart(u) == IF PointAt(u) = 0 THEN u ELSE SubSeq(u, 1, PointAt(u) - 1)

FracPart(u) == IF PointAt(u) = 0 THEN <<>> ELSE SubSeq(u, PointAt(u) + 1, Len(u))

\* float(text) succeeds: optional sign, digits, optional point and digits,
\* at least one digit in all
FloatOk(s) ==
    LET u == Unsigned(s)
    IN  /\ AllDigits(IntPart(u))
        /\ AllDigits(FracPart(u))
        /\ Len(IntPart(u)) + Len(FracPart(u)) >= 1

FloatVal(s) ==
    LET u == Unsigned(s)
    IN  [num |-> Sign(s) * ParseNat(IntPart(u) \o FracPart(u)),
         den |-> Pow10(Len(FracPart(u)))]

\* ------------------------------------------------------------- inputs
Keys == <<"device", "button", "center_x", "center_y">>

IntKeys == {"device", "button"}

\* texts a config.ini may hold for each key
DeviceRaws ==
    { <<"1">>, <<"2">>, <<"-", "1">>, <<"-", "3">>,
      <<"0", " ", ";", "j">>, <<"x">> }

ButtonRaws ==
    { <<"0">>, <<"3">>, <<"5">>, <<"-", "1">>, <<"1", ";", "b">>, <<>> }

CenterRaws ==
    { <<"0", ".", "5">>, <<".", "7", "5", " ", ";", "c">>,
      <<"1", ".", "5">>, <<"-", "0", ".", "5">>, <<"x">> }

RawsFor(k) ==
    IF k = "device" THEN DeviceRaws
    ELSE IF k = "button" THEN ButtonRaws
    ELSE CenterRaws

KeySet == {Keys[i] : i \in 1..Len(Keys)}

\* the files offered: every key present, or exactly one key (or its section)
\* absent
ConfigFiles ==
    UNION { {f \in [K -> DeviceRaws \cup ButtonRaws \cup CenterRaws] :
                \A k \in K : f[k] \in RawsFor(k)} :
            K \in {KeySet} \cup {KeySet \ {k} : k \in KeySet} }

\* what pygame reports: a list of joysticks, each with a button count
RECURSIVE SeqsUpTo(_, _)
SeqsUpTo(S, n) ==
    IF n = 0 THEN {<<>>}
    ELSE LET shorter == SeqsUpTo(S, n - 1)
         IN  shorter \cup {Append(q, x) : q \in shorter, x \in S}

\* the button counts offered: the smallest and the largest
ButtonCounts == {1, MaxButtons}

AttachedLists == SeqsUpTo(ButtonCounts, MaxDevices)

\* the screen sizes offered: the smallest and the largest
ScreenDims == {2, MaxScreen}

Events ==
    {[type |-> "JOYBUTTONUP", button |-> b] : b \in 0..(MaxButtons - 1)}
        \cup {[type |-> "QUIT"], [type |-> "JOYBUTTONDOWN"]}

\* ------------------------------------------------------------- log lines
Line(level, msg) == [level |-> level, msg |-> msg]

\* ------------------------------------------------------------- state
VARIABLES
    pc,             \* position of the process
    file,           \* config.ini: "missing", "malformed" or "ok"
    config,         \* the key -> text mapping config.ini holds
    settings,       \* main's settings, once load_config returned
    joystick_count, \* pygame.joystick.get_count() as read, -1 before
    devices_info,   \* main's devices_info; <<>> is both False and []
    events,         \* the rest of the list pygame.event.get() returned
    processed,      \* the events the for-loop body has handled so far
    screen_width, screen_height, \* center_mouse's locals
    second_x, second_y,          \* center_mouse's locals
    cursor,         \* the OS cursor position
    moves,          \* SetCursorPos calls of the latest center_mouse call
    centerCalls,    \* number of calls of center_mouse
    log,            \* center_mouse.log
    acquired,       \* pygame.init() called and pygame.quit() not since
    quits,          \* number of pygame.quit() calls
    called,         \* the functions entered so far
    exit_code       \* the process exit code, -1 while running

vars ==
    << pc, file, config, settings, joystick_count, devices_info, events,
       processed, screen_width, screen_height, second_x, second_y, cursor,
       moves, centerCalls, log, acquired, quits, called, exit_code >>

envVars == << file, config >>

mouseVars ==
    << screen_width, screen_height, second_x, second_y, cursor, moves >>

loopVars == << events, processed, centerCalls >>

Zero == [num |-> 0, den |-> 1]

Init ==
    /\ pc = "load_config"
    /\ \/ file \in {"missing", "malformed"} /\ config = <<>>
       \/ file = "ok" /\ config \in ConfigFiles
    /\ settings = [device |-> 0, button |-> 0, center_x |-> Zero, center_y |-> Zero]
    /\ joystick_count = -1
    /\ devices_info = <<>>
    /\ events = <<>>
    /\ processed = <<>>
    /\ screen_width = 0 /\ screen_height = 0
    /\ second_x = 0 /\ second_y = 0
    /\ cursor = <<1, 1>>
    /\ moves = <<>>
    /\ centerCalls = 0
    /\ log = <<>>
    /\ acquired = FALSE
    /\ quits = 0
    /\ called = {}
    /\ exit_code = -1

\* sys.exit(code)
Exit(code) == pc' = "exited" /\ exit_code' = code

\* an exception nobody catches: the traceback goes to sys.stderr, which
\* LogRedirect(logging.ERROR) writes to the log (its lines are one entry
\* here); the interpreter exits with 1
Uncaught ==
    /\ log' = Append(log, Line("ERROR", "Traceback"))
    /\ Exit(1)

\* ------------------------------------------------------------- load_config
Text(c, k) == StripComment(c[k])

\* the dict entry for key k can be built: the key exists and its text converts
KeyOk(c, k) ==
    /\ k \in DOMAIN c
    /\ IF k \in IntKeys THEN IntOk(Text(c, k)) ELSE FloatOk(Text(c, k))

\* the first entry of the settings literal whose evaluation raises, 0 if none
FirstBad(c) ==
    LET bad == {i \in 1..Len(Keys) : ~KeyOk(c, Keys[i])}
    IN  IF bad = {} THEN 0 ELSE CHOOSE i \in bad : \A j \in bad : i <= j

Parsed(c) ==
    [device   |-> IntVal(Text(c, "device")),
     button   |-> IntVal(Text(c, "button")),
     center_x |-> FloatVal(Text(c, "center_x")),
     center_y |-> FloatVal(Text(c, "center_y"))]

\* 0.0 <= f <= 1.0 for f = num/den, den > 0
InUnit(f) == 0 <= f.num /\ f.num <= f.den

CenterInRangeLowerOnly(cx, cy) == 0 <= cx.num /\ 0 <= cy.num

CenterInRange(cx, cy) == InUnit(cx) /\ InUnit(cy)

LoadConfigMissingFile ==
    /\ pc = "load_config"
    /\ file = "missing"
    /\ called' = called \cup {"load_config"}
    /\ log' = Append(log, Line("ERROR", "Configuration file not found or invalid."))
    /\ Exit(1)
    /\ UNCHANGED << envVars, settings, joystick_count, devices_info, loopVars,
                    mouseVars, acquired, quits >>

\* config.read raises a configparser error on a file it cannot parse
LoadConfigMalformedFile ==
    /\ pc = "load_config"
    /\ file = "malformed"
    /\ called' = called \cup {"load_config"}
    /\ Uncaught
    /\ UNCHANGED << envVars, settings, joystick_count, devices_info, loopVars,
                    mouseVars, acquired, quits >>

LoadConfigKeyError ==
    /\ pc = "load_config"
    /\ file = "ok"
    /\ FirstBad(config) # 0
    /\ Keys[FirstBad(config)] \notin DOMAIN config
    /\ called' = called \cup {"load_config"}
    /\ log' = Append(log, Line("ERROR", "Missing configuration key"))
    /\ Exit(1)
    /\ UNCHANGED << envVars, settings, joystick_count, devices_info, loopVars,
                    mouseVars, acquired, quits >>

LoadConfigValueError ==
    /\ pc = "load_config"
    /\ file = "ok"
    /\ \/ FirstBad(config) # 0 /\ Keys[FirstBad(config)] \in DOMAIN config
       \/ /\ FirstBad(config) = 0
          /\ ~CenterInRange(Parsed(config).center_x, Parsed(config).center_y)
    /\ called' = called \cup {"load_config"}
    /\ log' = Append(log, Line("ERROR", "Invalid value in configuration"))
    /\ Exit(1)
    /\ UNCHANGED << envVars, settings, joystick_count, devices_info, loopVars,
                    mouseVars, acquired, quits >>

LoadConfigOk ==
    /\ pc = "load_config"
    /\ file = "ok"
    /\ FirstBad(config) = 0
    /\ CenterInRange(Parsed(config).center_x, Parsed(config).center_y)
    /\ called' = called \cup {"load_config"}
    /\ settings' = Parsed(config)
    /\ pc' = "log_available_devices"
    /\ UNCHANGED << envVars, joystick_count, devices_info, loopVars, mouseVars,
                    log, acquired, quits, exit_code >>

\* ------------------------------------------------------------- log_available_devices
NoJoysticksNegativeOnly(count) == count < 0

NoJoysticks(count) == count < 1

DeviceInfo(i, buttons) == [index |-> i, name |-> "joystick", buttons |-> buttons]

\* the log lines of the enumeration of n joysticks
RECURSIVE DeviceLines(_)
DeviceLines(n) ==
    IF n = 0 THEN << Line("INFO", "joystick(s) detected:") >>
    ELSE Append(DeviceLines(n - 1), Line("INFO", "Joystick with button(s)"))

\* pygame.init() .. return: the whole function, for each list of joysticks
\* the OS may report
LogAvailableDevices ==
    /\ pc = "log_available_devices"
    /\ called' = called \cup {"log_available_devices"}
    /\ acquired' = TRUE
    /\ \E attached \in AttachedLists :
        /\ joystick_count' = Len(attached)
        /\ IF NoJoysticks(Len(attached))
           THEN /\ log' = Append(log, Line("INFO", "No joysticks detected."))
                /\ devices_info' = <<>>
           ELSE /\ log' = log \o DeviceLines(Len(attached))
                /\ devices_info' =
                      [i \in 1..Len(attached) |-> DeviceInfo(i - 1, attached[i])]
    /\ pc' = "main_check_devices"
    /\ UNCHANGED << envVars, settings, loopVars, mouseVars, quits, exit_code >>

\* an exception inside the try (pygame.init, joystick.init, Joystick(i), ...)
LogAvailableDevicesRaises ==
    /\ pc = "log_available_devices"
    /\ called' = called \cup {"log_available_devices"}
    /\ acquired' \in {acquired, TRUE}
    /\ log' = Append(log, Line("ERROR", "Error initializing or logging joysticks"))
    /\ Exit(1)
    /\ UNCHANGED << envVars, settings, joystick_count, devices_info, loopVars,
                    mouseVars, quits >>

\* main, lines 152-154
MainNoDevices ==
    /\ pc = "main_check_devices"
    /\ devices_info = <<>>
    /\ log' = Append(log, Line("INFO", "Exiting: No joysticks available."))
    /\ Exit(1)
    /\ UNCHANGED << envVars, settings, joystick_count, devices_info, loopVars,
                    mouseVars, acquired, quits, called >>

\* ------------------------------------------------------------- validate_config
DeviceIndexInvalid(device_index, n) == device_index >= n

ButtonIndexInvalidAboveOnly(button_index, buttons) == button_index > buttons

ButtonIndexInvalid(button_index, buttons) == button_index >= buttons

\* list[i] of Python, as a position 1..Len(list); 0 when it raises IndexError
PyIndex(list, i) ==
    IF 0 <= i /\ i < Len(list) THEN i + 1
    ELSE IF i < 0 /\ -Len(list) <= i THEN Len(list) + i + 1
    ELSE 0

ValidateConfigBadDevice ==
    /\ pc = "main_check_devices"
    /\ devices_info # <<>>
    /\ DeviceIndexInvalid(settings.device, Len(devices_info))
    /\ called' = called \cup {"validate_config"}
    /\ log' = Append(log, Line("ERROR", "Invalid joystick index in config"))
    /\ Exit(1)
    /\ UNCHANGED << envVars, settings, joystick_count, devices_info, loopVars,
                    mouseVars, acquired, quits >>

\* devices_info[device_index] raises IndexError, which nothing catches
ValidateConfigIndexError ==
    /\ pc = "main_check_devices"
    /\ devices_info # <<>>
    /\ ~DeviceIndexInvalid(settings.device, Len(devices_info))
    /\ PyIndex(devices_info, settings.device) = 0
    /\ called' = called \cup {"validate_config"}
    /\ Uncaught
    /\ UNCHANGED << envVars, settings, joystick_count, devices_info, loopVars,
                    mouseVars, acquired, quits >>

ValidateConfigBadButton ==
    /\ pc = "main_check_devices"
    /\ devices_info # <<>>
    /\ ~DeviceIndexInvalid(settings.device, Len(devices_info))
    /\ PyIndex(devices_info, settings.device) # 0
    /\ ButtonIndexInvalid(settings.button,
                          devices_info[PyIndex(devices_info, settings.device)].buttons)
    /\ called' = called \cup {"validate_config"}
    /\ log' = Append(log, Line("ERROR", "Invalid button index in config"))
    /\ Exit(1)
    /\ UNCHANGED << envVars, settings, joystick_count, devices_info, loopVars,
                    mouseVars, acquired, quits >>

ValidateConfigOk ==
    /\ pc = "main_check_devices"
    /\ devices_info # <<>>
    /\ ~DeviceIndexInvalid(settings.device, Len(devices_info))
    /\ PyIndex(devices_info, settings.device) # 0
    /\ ~ButtonIndexInvalid(settings.button,
                           devices_info[PyIndex(devices_info, settings.device)].buttons)
    /\ called' = called \cup {"validate_config"}
    /\ pc' = "main_init"
    /\ UNCHANGED << envVars, settings, joystick_count, devices_info, loopVars,
                    mouseVars, log, acquired, quits, exit_code >>

\* ------------------------------------------------------------- main: try / except / finally
\* except Exception: log; finally: pygame.quit() and log; main returns and
\* the interpreter ends with exit code 0
ExceptThenFinally ==
    /\ log' = log \o << Line("ERROR", "An unexpected error occurred"),
                        Line("INFO", "Pygame exited cleanly.") >>
    /\ acquired' = FALSE
    /\ quits' = quits + 1
    /\ Exit(0)

\* pygame.joystick.Joystick(id) accepts the ids 0 .. get_count()-1
JoystickExists(id, count) == 0 <= id /\ id < count

\* lines 158-167, the joystick opens
MainInitOk ==
    /\ pc = "main_init"
    /\ JoystickExists(settings.device, joystick_count)
    /\ acquired' = TRUE
    /\ log' = log \o << Line("INFO", "Joystick initialized"),
                        Line("INFO", "Monitoring button index"),
                        Line("INFO", "Listening to Events now:") >>
    /\ called' = called \cup {"event_loop"}
    /\ pc' = "poll"
    /\ UNCHANGED << envVars, settings, joystick_count, devices_info, loopVars,
                    mouseVars, quits, exit_code >>

\* lines 158-163, Joystick(id) or joystick.init() raises pygame.error: always
\* for an id pygame does not have, possibly for one it has (device unplugged)
MainInitRaises ==
    /\ pc = "main_init"
    /\ ExceptThenFinally
    /\ UNCHANGED << envVars, settings, joystick_count, devices_info, loopVars,
                    mouseVars, called >>

\* ------------------------------------------------------------- main: the loop
\* pygame.event.pump(); pygame.event.get()
Poll ==
    /\ pc = "poll"
    /\ events' \in SeqsUpTo(Events, MaxEvents - Len(processed))
    /\ pc' = "dispatch"
    /\ UNCHANGED << envVars, settings, joystick_count, devices_info, processed,
                    centerCalls, mouseVars, log, acquired, quits, called,
                    exit_code >>

PollRaises ==
    /\ pc = "poll"
    /\ ExceptThenFinally
    /\ UNCHANGED << envVars, settings, joystick_count, devices_info, loopVars,
                    mouseVars, called >>

ButtonMatchesAny(event, s) == TRUE

ButtonMatches(event, s) == event.button = s.button

Take ==
    /\ events' = Tail(events)
    /\ processed' = Append(processed, Head(events))

\* JOYBUTTONUP of the configured button: log, print, call center_mouse
HandleButtonRelease ==
    /\ pc = "dispatch"
    /\ events # <<>>
    /\ Head(events).type = "JOYBUTTONUP"
    /\ ButtonMatches(Head(events), settings)
    /\ Take
    /\ log' = log \o << Line("INFO", "Button released!"),
                        Line("INFO", "Button released!") >>
    /\ centerCalls' = centerCalls + 1
    /\ called' = called \cup {"center_mouse"}
    /\ moves' = <<>>
    /\ pc' = "center_mouse_first"
    /\ UNCHANGED << envVars, settings, joystick_count, devices_info,
                    screen_width, screen_height, second_x, second_y, cursor,
                    acquired, quits, exit_code >>

\* JOYBUTTONUP of another button: neither if-body runs
HandleOtherRelease ==
    /\ pc = "dispatch"
    /\ events # <<>>
    /\ Head(events).type = "JOYBUTTONUP"
    /\ ~ButtonMatches(Head(events), settings)
    /\ Take
    /\ UNCHANGED << pc, envVars, settings, joystick_count, devices_info,
                    centerCalls, mouseVars, log, acquired, quits, called,
                    exit_code >>

HandleQuitEventBreaks ==
    /\ pc = "dispatch"
    /\ events # <<>>
    /\ Head(events).type = "QUIT"
    /\ Take
    /\ log' = log \o << Line("INFO", "Quit event received."),
                        Line("INFO", "Quit event received."),
                        Line("INFO", "Pygame exited cleanly.") >>
    /\ acquired' = FALSE
    /\ quits' = quits + 1
    /\ Exit(0)
    /\ UNCHANGED << envVars, settings, joystick_count, devices_info,
                    centerCalls, mouseVars, called >>

\* pygame.QUIT: log and print, the loop goes on
HandleQuitEvent ==
    /\ pc = "dispatch"
    /\ events # <<>>
    /\ Head(events).type = "QUIT"
    /\ Take
    /\ log' = log \o << Line("INFO", "Quit event received."),
                        Line("INFO", "Quit event received.") >>
    /\ UNCHANGED << pc, envVars, settings, joystick_count, devices_info,
                    centerCalls, mouseVars, acquired, quits, called, exit_code >>

\* any other event type
HandleOtherEvent ==
    /\ pc = "dispatch"
    /\ events # <<>>
    /\ Head(events).type \notin {"JOYBUTTONUP", "QUIT"}
    /\ Take
    /\ UNCHANGED << pc, envVars, settings, joystick_count, devices_info,
                    centerCalls, mouseVars, log, acquired, quits, called,
                    exit_code >>

\* the for-loop is done: time.sleep(0.1), next iteration
EndOfEvents ==
    /\ pc = "dispatch"
    /\ events = <<>>
    /\ pc' = "poll"
    /\ UNCHANGED << envVars, settings, joystick_count, devices_info, loopVars,
                    mouseVars, log, acquired, quits, called, exit_code >>

\* ------------------------------------------------------------- center_mouse
\* int(x) of Python for x = p/q, q > 0: truncation toward zero
Trunc(p, q) == IF p >= 0 THEN p \div q ELSE -((-p) \div q)

\* round(x) of Python for x = p/q >= 0: to nearest, ties to even
Round(p, q) ==
    LET f == p \div q
        r == p % q
    IN  IF 2 * r < q THEN f
        ELSE IF 2 * r > q THEN f + 1
        ELSE IF f % 2 = 0 THEN f ELSE f + 1

TargetPixelRounded(size, frac) == Round(size * frac.num, frac.den)

\* int(screen_width * center_x_frac)
TargetPixel(size, frac) == Trunc(size * frac.num, frac.den)

\* lines 131-142: metrics, targets, first SetCursorPos, print, sleep
CenterMouseFirst ==
    /\ pc = "center_mouse_first"
    /\ \E w \in ScreenDims, h \in ScreenDims :
        /\ screen_width' = w
        /\ screen_height' = h
        /\ second_x' = TargetPixel(w, settings.center_x)
        /\ second_y' = TargetPixel(h, settings.center_y)
    /\ cursor' = <<0, 0>>
    /\ moves' = Append(moves, <<0, 0>>)
    /\ log' = Append(log, Line("INFO", "Mouse moved to initial position"))
    /\ pc' = "center_mouse_second"
    /\ UNCHANGED << envVars, settings, joystick_count, devices_info, loopVars,
                    acquired, quits, called, exit_code >>

\* lines 144-145: second SetCursorPos, print, return to the for-loop
CenterMouseSecond ==
    /\ pc = "center_mouse_second"
    /\ cursor' = <<second_x, second_y>>
    /\ moves' = Append(moves, <<second_x, second_y>>)
    /\ log' = Append(log, Line("INFO", "Mouse moved to second position"))
    /\ pc' = "dispatch"
    /\ UNCHANGED << envVars, settings, joystick_count, devices_info, loopVars,
                    screen_width, screen_height, second_x, second_y,
                    acquired, quits, called, exit_code >>

\* an OS call of center_mouse raises before the move it was about to make
CenterMouseRaises ==
    /\ pc \in {"center_mouse_first", "center_mouse_second"}
    /\ ExceptThenFinally
    /\ UNCHANGED << envVars, settings, joystick_count, devices_info, loopVars,
                    mouseVars, called >>

\* ------------------------------------------------------------- specification
Next ==
    \/ LoadConfigMissingFile
    \/ LoadConfigMalformedFile
    \/ LoadConfigKeyError
    \/ LoadConfigValueError
    \/ LoadConfigOk
    \/ LogAvailableDevices
    \/ LogAvailableDevicesRaises
    \/ MainNoDevices
    \/ ValidateConfigBadDevice
    \/ ValidateConfigIndexError
    \/ ValidateConfigBadButton
    \/ ValidateConfigOk
    \/ MainInitOk
    \/ MainInitRaises
    \/ Poll
    \/ PollRaises
    \/ HandleButtonRelease
    \/ HandleOtherRelease
    \/ HandleQuitEvent
    \/ HandleOtherEvent
    \/ EndOfEvents
    \/ CenterMouseFirst
    \/ CenterMouseSecond
    \/ CenterMouseRaises

Spec == Init /\ [][Next]_vars

\* ------------------------------------------------------------- properties
InLoop ==
    pc \in {"poll", "dispatch", "center_mouse_first", "center_mouse_second"}

InCenterMouse == pc \in {"center_mouse_first", "center_mouse_second"}

Logged(level, msg) == \E i \in 1..Len(log) : log[i] = Line(level, msg)

LastLogged(level, msg) == log # <<>> /\ log[Len(log)] = Line(level, msg)

IsRelease(e) == e.type = "JOYBUTTONUP"

IsConfiguredRelease(e) == e.type = "JOYBUTTONUP" /\ e.button = settings.button

DeviceCount == Len(devices_info)

\* the integer k with k <= p/q < k+1, for p >= 0 and q > 0
FloorOf(p, q) == CHOOSE k \in 0..p : k * q <= p /\ p < (k + 1) * q

RoundedTarget ==
    << Round(screen_width * settings.center_x.num, settings.center_x.den),
       Round(screen_height * settings.center_y.num, settings.center_y.den) >>

TruncatedTarget ==
    << FloorOf(screen_width * settings.center_x.num, settings.center_x.den),
       FloorOf(screen_height * settings.center_y.num, settings.center_y.den) >>

\* the shape of every center_mouse call: at most two moves, (0,0) first, and a
\* call that has returned made exactly two
TwoMovesOriginFirst ==
    /\ Len(moves) <= 2
    /\ Len(moves) >= 1 => moves[1] = <<0, 0>>
    /\ pc = "center_mouse_first" => moves = <<>>
    /\ pc = "center_mouse_second" => Len(moves) = 1 /\ cursor = <<0, 0>>
    /\ (centerCalls > 0 /\ InLoop /\ ~InCenterMouse) => Len(moves) = 2

\* C1 as stated: a center_mouse call that returns moved the cursor to (0,0)
\* and then to (round(width*center_x), round(height*center_y)), where the
\* cursor stays.
C1_RoundedTarget ==
    /\ TwoMovesOriginFirst
    /\ Len(moves) = 2 => moves[2] = RoundedTarget /\ cursor = RoundedTarget

\* C1 amended: a center_mouse call that returns moved the cursor to (0,0) and
\* then to (int(width*center_x), int(height*center_y)), the products
\* truncated, not rounded; the cursor stays there.
C1_TruncatedTarget ==
    /\ TwoMovesOriginFirst
    /\ Len(moves) = 2 => moves[2] = TruncatedTarget /\ cursor = TruncatedTarget

\* a call has returned on a screen where truncation and rounding differ
C1_Witness ==
    /\ pc = "dispatch"
    /\ Len(moves) = 2
    /\ cursor = TruncatedTarget
    /\ TruncatedTarget[1] # RoundedTarget[1]

\* config.ini gives center_x or center_y a number outside [0, 1]
CenterOutOfRange ==
    /\ file = "ok"
    /\ \E k \in {"center_x", "center_y"} :
        /\ k \in DOMAIN config
        /\ FloatOk(Text(config, k))
        /\ \/ FloatVal(Text(config, k)).num < 0
           \/ FloatVal(Text(config, k)).num > FloatVal(Text(config, k)).den

\* C2: with center_x or center_y outside [0, 1] the run ends in load_config
\* with an error logged and exit code 1; pygame is never initialised, no
\* device is enumerated, nothing is validated and the loop never runs.
C2_OutOfRangeStopsBeforeEnumeration ==
    CenterOutOfRange =>
        /\ pc \in {"load_config", "exited"}
        /\ called \subseteq {"load_config"}
        /\ ~acquired /\ joystick_count = -1 /\ devices_info = <<>>
        /\ pc = "exited" =>
            /\ exit_code = 1
            /\ log # <<>> /\ log[Len(log)].level = "ERROR"

\* center_x = 1.5 with every other value well formed, after the exit
C2_Witness ==
    /\ pc = "exited"
    /\ file = "ok"
    /\ FirstBad(config) = 0
    /\ FloatVal(Text(config, "center_x")) = [num |-> 15, den |-> 10]
    /\ LastLogged("ERROR", "Invalid value in configuration")

\* C3: when pygame reports zero joysticks, "No joysticks detected." is
\* logged, the process exits with code 1, and validate_config, the event loop
\* and center_mouse are never reached.
C3_NoJoysticksExit ==
    joystick_count = 0 =>
        /\ Logged("INFO", "No joysticks detected.")
        /\ pc \in {"main_check_devices", "exited"}
        /\ called \cap {"validate_config", "event_loop", "center_mouse"} = {}
        /\ centerCalls = 0 /\ moves = <<>>
        /\ pc = "exited" => exit_code = 1

C3_Witness == joystick_count = 0 /\ pc = "exited" /\ exit_code = 1

\* C4 as stated: once validate_config has run with a device index that is not
\* one of 0 .. n-1, the process has exited with code 1 after logging the
\* invalid-joystick-index error, and the loop was never entered.
C4_OutOfRangeDeviceRejected ==
    ("validate_config" \in called /\ settings.device \notin 0..(DeviceCount - 1)) =>
        /\ pc = "exited"
        /\ exit_code = 1
        /\ LastLogged("ERROR", "Invalid joystick index in config")
        /\ "event_loop" \notin called

\* C5: once validate_config has run with a device index in 0 .. n-1 and a
\* button index >= that device's button count, the process has exited with
\* code 1 after logging the invalid-button-index error, and the loop was
\* never entered.
C5_ButtonAtOrAboveCountRejected ==
    ( /\ "validate_config" \in called
      /\ settings.device \in 0..(DeviceCount - 1)
      /\ settings.button >= devices_info[settings.device + 1].buttons ) =>
        /\ pc = "exited"
        /\ exit_code = 1
        /\ LastLogged("ERROR", "Invalid button index in config")
        /\ "event_loop" \notin called

\* the boundary: the button index equals the button count
C5_Witness ==
    /\ "validate_config" \in called
    /\ settings.device \in 0..(DeviceCount - 1)
    /\ settings.button = devices_info[settings.device + 1].buttons
    /\ pc = "exited"

MatchingProcessed ==
    Cardinality({i \in 1..Len(processed) : IsConfiguredRelease(processed[i])})

\* C6: handling a release of a button other than the configured one changes
\* neither the cursor nor the log and calls nothing; SetCursorPos is called
\* only inside center_mouse, entered for a release of the configured button;
\* the number of center_mouse calls equals the number of configured-button
\* releases handled.
C6_OnlyConfiguredReleaseMoves ==
    [][ /\ ( /\ pc = "dispatch" /\ events # <<>>
             /\ IsRelease(Head(events))
             /\ Head(events).button # settings.button ) =>
               /\ processed' = Append(processed, Head(events))
               /\ cursor' = cursor /\ moves' = moves
               /\ log' = log /\ centerCalls' = centerCalls
        /\ (moves' # moves /\ moves' # <<>>) =>
               /\ InCenterMouse
               /\ processed # <<>>
               /\ IsConfiguredRelease(processed[Len(processed)])
        /\ cursor' # cursor => InCenterMouse
        /\ centerCalls' = MatchingProcessed'
      ]_vars

\* both kinds of release have been handled and one call was made
C6_Witness ==
    /\ \E i \in 1..Len(processed) :
          IsRelease(processed[i]) /\ ~IsConfiguredRelease(processed[i])
    /\ \E i \in 1..Len(processed) : IsConfiguredRelease(processed[i])
    /\ centerCalls = 1
    /\ Len(moves) = 2

\* C7 as stated: the process never ends with pygame initialised and not
\* released by a later pygame.quit().
C7_ReleasedOnEveryExit == pc = "exited" => ~acquired

\* C8 as stated: a run that ends before the loop started listening (a
\* validation or initialisation failure) ends with exit code 1, so exit code
\* 0 is only seen after the loop was listening.
C8_StartupFailureExitsOne ==
    (pc = "exited" /\ "event_loop" \notin called) => exit_code = 1

QuitLines ==
    << Line("INFO", "Quit event received."), Line("INFO", "Quit event received.") >>

HandlerLines ==
    << Line("ERROR", "An unexpected error occurred"),
       Line("INFO", "Pygame exited cleanly.") >>

\* C9: the loop is left only by an exception that is caught, logged and
\* followed by pygame.quit(); a quit event is logged and the loop goes on; a
\* release of the configured button calls center_mouse whatever was handled
\* before.
C9_LoopLeftOnlyByException ==
    [][ /\ (InLoop /\ ~InLoop') =>
               /\ pc' = "exited"
               /\ log' = log \o HandlerLines
               /\ quits' = quits + 1 /\ ~acquired'
        /\ ( /\ pc = "dispatch" /\ events # <<>>
             /\ Head(events).type = "QUIT" ) =>
               /\ InLoop'
               /\ log' = log \o QuitLines
               /\ centerCalls' = centerCalls /\ quits' = quits
        /\ ( /\ pc = "dispatch" /\ events # <<>>
             /\ IsConfiguredRelease(Head(events)) ) =>
               /\ pc' = "center_mouse_first"
               /\ centerCalls' = centerCalls + 1
      ]_vars

\* a quit event was handled, and a later release still moved the cursor
C9_Witness ==
    /\ \E i, j \in 1..Len(processed) :
          /\ i < j
          /\ processed[i].type = "QUIT"
          /\ IsConfiguredRelease(processed[j])
    /\ InLoop
    /\ Len(moves) = 2
    /\ centerCalls = 1

\* C10 as stated: while the loop runs, the settings are the ones read from
\* config.ini, the device index is one of 0 .. n-1, the button index is one
\* of 0 .. buttons-1 of that device, and both fractions are in [0, 1].
C10_LoopSettingsValid ==
    InLoop =>
        /\ settings = Parsed(config)
        /\ settings.device \in 0..(DeviceCount - 1)
        /\ settings.button \in 0..(devices_info[settings.device + 1].buttons - 1)
        /\ 0 <= settings.center_x.num /\ settings.center_x.num <= settings.center_x.den
        /\ 0 <= settings.center_y.num /\ settings.center_y.num <= settings.center_y.den

====
